---- MODULE Spec2Model ----
(***************************************************************************)
(* A model of daspy/core/read.py: the format dispatcher `read` and the     *)
(* per-format readers _read_pkl, _read_h5, _read_tdms, _read_segy and      *)
(* _read_npy.  One call of `read` is a run of the state machine: dispatch, *)
(* open the container, extract, leave the `with` block, return or raise.   *)
(*                                                                         *)
(* Arrays are modelled by their shape, element type, whether they are a    *)
(* zero-filled stub, and the on-disk indices of the rows they hold.        *)
(* Floating point attributes are modelled by integers; the inputs are      *)
(* chosen so that every division the code performs is exact.               *)
(***************************************************************************)
EXTENDS Integers, Sequences, FiniteSets, TLC

VARIABLES
    pc,           \* position of the call
    fname,        \* argument fname: a sequence of characters, or NoName
    ftype,        \* argument ftype: a sequence of characters, or NoType
    output_type,  \* argument output_type
    read_data,    \* argument read_data
    kwargs,       \* **kwargs: [ch1, ch2], each Absent or Val(i)
    tag,          \* the local ftype of read after lines 40-46
    reader,       \* the per-format reader fun_map[ftype] that was invoked
    handle,       \* the container handle of the `with` statement
    container,    \* what the opened file holds
    res,          \* what the reader computed (its return value or exception)
    out           \* what read returned

vars == <<pc, fname, ftype, output_type, read_data, kwargs, tag, reader,
          handle, container, res, out>>

-----------------------------------------------------------------------------
(* Bounds of the model *)

\* channel counts of a container are 1..MaxCh
MaxCh == 3
\* sample counts of a container are 1..MaxNt
MaxNt == 2
\* intrinsic start channels are 0..MaxStart
MaxStart == 1
\* requested bounds range from -Slack to MaxStart + MaxCh + Slack
Slack == 1

Chans == 1..MaxCh
Samples == 1..MaxNt
Starts == 0..MaxStart
Requests == (0 - Slack)..(MaxStart + MaxCh + Slack)
DTypes == {"int16", "float32"}

-----------------------------------------------------------------------------
(* Python values *)

\* a key that is not in a mapping / an argument that was not passed
Absent == <<"absent">>
\* the value None
PyNone == <<"none">>
Val(v) == <<"val", v>>
Has(o) == o[1] = "val"
Get(o) == o[2]
\* dict.pop(key, default), dict.get(key, default)
Pop(o, default) == IF Has(o) THEN Get(o) ELSE default

\* a[lo:hi] on an axis of length n: the bound the slice uses for index i
SliceBound(i, n) ==
    IF i < 0 THEN (IF i + n < 0 THEN 0 ELSE i + n)
    ELSE IF i > n THEN n ELSE i

SliceLen(lo, hi, n) ==
    IF SliceBound(hi, n) > SliceBound(lo, n)
    THEN SliceBound(hi, n) - SliceBound(lo, n) ELSE 0

\* the (0-based) indices a[lo:hi] selects, in order
SliceIdx(lo, hi, n) ==
    [k \in 1..SliceLen(lo, hi, n) |-> SliceBound(lo, n) + k - 1]

\* Python's round(a / b) for b > 0: round half to even
Round(a, b) ==
    LET q == a \div b
        r == a % b
    IN  IF 2 * r < b THEN q
        ELSE IF 2 * r > b THEN q + 1
        ELSE IF q % 2 = 0 THEN q ELSE q + 1

-----------------------------------------------------------------------------
(* Arrays *)

NoData == [shape |-> <<>>, dtype |-> "", zero |-> FALSE, rows |-> <<>>]

\* a[lo:hi, :] of an on-disk array a with a.shape = <<d0, d1>>
GetRows(a, lo, hi) ==
    [shape |-> <<SliceLen(lo, hi, a.shape[1]), a.shape[2]>>,
     dtype |-> a.dtype, zero |-> FALSE,
     rows  |-> SliceIdx(lo, hi, a.shape[1])]

\* a[:, lo:hi].T
GetColsT(a, lo, hi) ==
    [shape |-> <<SliceLen(lo, hi, a.shape[2]), a.shape[1]>>,
     dtype |-> a.dtype, zero |-> FALSE,
     rows  |-> SliceIdx(lo, hi, a.shape[2])]

\* np.zeros(shape): float64
NpZeros(shape) ==
    [shape |-> shape, dtype |-> "float64", zero |-> TRUE, rows |-> <<>>]

\* np.zeros(a.shape) in the place of np.zeros_like(a)
ZerosOfShape(a) == NpZeros(a.shape)

\* np.zeros_like(a)
ZerosLike(a) ==
    [shape |-> a.shape, dtype |-> a.dtype, zero |-> TRUE, rows |-> <<>>]

\* m.T of a 2-D array
Transpose(m) == [m EXCEPT !.shape = <<m.shape[2], m.shape[1]>>]

\* data.astype(float)
AsFloat(m) == [m EXCEPT !.dtype = "float64"]

-----------------------------------------------------------------------------
(* What a reader hands back *)

NoMeta ==
    [fs |-> Absent, dx |-> Absent, start_channel |-> Absent,
     start_distance |-> Absent, start_time |-> Absent,
     gauge_length |-> Absent, data_type |-> Absent, headers |-> Absent]

\* a reader returned (data, metadata).  warns counts the warnings.warn calls;
\* ch1, ch2 are the reader's local window (Absent when it resolved none),
\* start and nch its intrinsic first channel and channel count.
Return(data, meta, warns, ch1, ch2, start, nch) ==
    [status |-> "return", exc |-> "", data |-> data, meta |-> meta,
     warns |-> warns, ch1 |-> ch1, ch2 |-> ch2, start |-> start, nch |-> nch]

\* a reader raised
Raise(exc) ==
    [status |-> "raise", exc |-> exc, data |-> NoData, meta |-> NoMeta,
     warns |-> 0, ch1 |-> Absent, ch2 |-> Absent, start |-> 0, nch |-> 0]

NoRes ==
    [status |-> "none", exc |-> "", data |-> NoData, meta |-> NoMeta,
     warns |-> 0, ch1 |-> Absent, ch2 |-> Absent, start |-> 0, nch |-> 0]

-----------------------------------------------------------------------------
(* _read_pkl *)

PklContainers ==
    {[variant |-> "serialized-array", shape |-> <<n, nt>>, dtype |-> d] :
        n \in Chans, nt \in Samples, d \in DTypes}
    \cup
    {[variant |-> "serialized-map", hasData |-> TRUE, shape |-> <<n, nt>>,
      dtype |-> d, start_channel |-> s] :
        n \in Chans, nt \in Samples, d \in DTypes,
        s \in {Absent} \cup {Val(i) : i \in Starts}}
    \cup
    {[variant |-> "serialized-map", hasData |-> FALSE, shape |-> <<1, 1>>,
      dtype |-> "int16", start_channel |-> Absent]}
    \cup
    {[variant |-> "unknown-payload"]}

\* lines 61-69: the payload is a bare array
read_pkl_array(c, kw, rd) ==
    LET meta == [NoMeta EXCEPT !.dx = PyNone, !.fs = PyNone]
        ch1 == Pop(kw.ch1, 0)
        ch2 == Pop(kw.ch2, c.shape[1])
    IN  IF rd
        THEN Return(GetRows(c, ch1, ch2), meta, 1, Val(ch1), Val(ch2),
                    0, c.shape[1])
        ELSE Return(ZerosLike(c), meta, 1, Absent, Absent, 0, c.shape[1])

\* line 81 without the offset of the intrinsic start channel
PklRowsFromZero(c, ch1, ch2, s_chn) == GetRows(c, ch1, ch2)

\* line 81: data[ch1 - s_chn:ch2 - s_chn, :]
PklRows(c, ch1, ch2, s_chn) == GetRows(c, ch1 - s_chn, ch2 - s_chn)

\* lines 70-85: the payload is a map with a data entry
read_pkl_dict(c, kw, rd) ==
    LET pkl_data == [NoMeta EXCEPT !.start_channel = c.start_channel]
        s_chn == Pop(c.start_channel, 0)
        ch1 == Pop(kw.ch1, s_chn)
        ch2 == Pop(kw.ch2, s_chn + c.shape[1])
    IN  IF ~c.hasData THEN Raise("KeyError")
        ELSE IF rd
        THEN IF Has(kw.ch1) \/ Has(kw.ch2)
             THEN Return(PklRows(c, ch1, ch2, s_chn),
                         [pkl_data EXCEPT !.start_channel = Val(ch1)], 0,
                         Val(ch1), Val(ch2), s_chn, c.shape[1])
             ELSE Return(GetRows(c, 0, c.shape[1]), pkl_data, 0,
                         Absent, Absent, s_chn, c.shape[1])
        ELSE Return(ZerosLike(c), pkl_data, 0, Absent, Absent,
                    s_chn, c.shape[1])

read_pkl(c, kw, rd) ==
    IF c.variant = "serialized-array" THEN read_pkl_array(c, kw, rd)
    ELSE IF c.variant = "serialized-map" THEN read_pkl_dict(c, kw, rd)
    ELSE Raise("TypeError")

-----------------------------------------------------------------------------
(* _read_h5 *)

\* line 129, 164: microseconds per second
Mega == 1000000
\* line 123: longest ISO8601 string that carries no UTC offset
NaiveLen == 26

\* the absolute-time collaborator DASDateTime, by the call that was made
StrptimeOffset(text) == <<"strptime %z", text>>
StrptimeNaiveUtc(text) == <<"strptime astimezone(utc)", text>>
\* fromtimestamp(num / den)
FromTimestamp(num, den) == <<"fromtimestamp", num, den>>
\* from_datetime(value)
FromDatetime(v) == <<"from_datetime", v>>
\* the integer 0 the code uses for an unknown start time
TimeZero == <<"int", 0>>

\* channel-major (count, samples) and sample-major (samples, count) arrays
OrientedShapes ==
    UNION {{[shape |-> <<n, nt>>, count |-> n],
            [shape |-> <<nt, n>>, count |-> n]} :
           n \in Chans, nt \in Samples}

\* the attributes of a complete acquisition-v1 container: a rate of 4, a
\* per-sample time array in microseconds whose spacing gives a rate of 2
AcqValue ==
    [OutputDataRate |-> 4,
     RawDataTime |-> <<1000000, 1500000, 2000000>>,
     SpatialSamplingInterval |-> 2,
     GaugeLength |-> 10,
     PartStartTime |->
         [text |-> "2024-01-01T00:00:00.000000+00:00", len |-> 32],
     MeasurementStartTime |->
         [text |-> "2024-01-01T00:00:00.000000", len |-> 26]]

\* which attributes of the complete container are removed
AcqProfiles ==
    {{}, {"OutputDataRate"}, {"RawDataTime"}, {"SpatialSamplingInterval"},
     {"GaugeLength"}, {"PartStartTime"}, {"MeasurementStartTime"},
     {"OutputDataRate", "RawDataTime"},
     {"PartStartTime", "MeasurementStartTime"},
     {"PartStartTime", "MeasurementStartTime", "RawDataTime"}}

Attr(values, missing, name) ==
    IF name \in missing THEN Absent ELSE Val(values[name])

AcqContainer(shape, d, nol, missing) ==
    [variant |-> "acquisition-v1", shape |-> shape, dtype |-> d,
     NumberOfLoci |-> nol,
     OutputDataRate |-> Attr(AcqValue, missing, "OutputDataRate"),
     RawDataTime |-> Attr(AcqValue, missing, "RawDataTime"),
     SpatialSamplingInterval |->
         Attr(AcqValue, missing, "SpatialSamplingInterval"),
     GaugeLength |-> Attr(AcqValue, missing, "GaugeLength"),
     PartStartTime |-> Attr(AcqValue, missing, "PartStartTime"),
     MeasurementStartTime |-> Attr(AcqValue, missing, "MeasurementStartTime")]

AcqContainers ==
    {AcqContainer(o.shape, d, Val(o.count), {}) :
        o \in OrientedShapes, d \in DTypes}
    \cup
    {AcqContainer(<<n, nt>>, "int16", Absent, {}) :
        n \in Chans, nt \in Samples}
    \cup
    {AcqContainer(<<n, MaxNt>>, "int16", Val(n), p) :
        n \in {1, MaxCh}, p \in AcqProfiles}

\* lines 122-127: an ISO8601 string, with a UTC offset when it is long
ParseIso(stamp) ==
    IF stamp.len > NaiveLen
    THEN StrptimeOffset(stamp.text)
    ELSE StrptimeNaiveUtc(stamp.text)

\* lines 108-131: the two attributes are strings, the time array numbers
read_h5_starttime(c) ==
    IF Has(c.PartStartTime) THEN ParseIso(Get(c.PartStartTime))
    ELSE IF Has(c.MeasurementStartTime)
    THEN ParseIso(Get(c.MeasurementStartTime))
    ELSE IF Has(c.RawDataTime)
    THEN FromTimestamp(Get(c.RawDataTime)[1], Mega)
    ELSE TimeZero

\* line 164: 1 / (np.diff(time_arr).mean() / 1e6)
DerivedRate(t) == (Mega * (Len(t) - 1)) \div (t[Len(t)] - t[1])

\* lines 160-164 with the two steps of the chain exchanged
AcqRateDerivedFirst(c) ==
    IF Has(c.RawDataTime) THEN Val(DerivedRate(Get(c.RawDataTime)))
    ELSE c.OutputDataRate

\* lines 160-164: Absent when both lookups raise KeyError
AcqRate(c) ==
    IF Has(c.OutputDataRate) THEN c.OutputDataRate
    ELSE IF Has(c.RawDataTime) THEN Val(DerivedRate(Get(c.RawDataTime)))
    ELSE Absent

\* lines 146-157 and 192-202: orientation by the leading dimension
OrientedData(a, nch, ch1, ch2, rd) ==
    IF a.shape[1] = nch
    THEN IF rd THEN GetRows(a, ch1, ch2) ELSE ZerosLike(a)
    ELSE IF rd THEN GetColsT(a, ch1, ch2) ELSE Transpose(ZerosLike(a))

\* lines 138-172
read_h5_acquisition(c, kw, rd) ==
    LET nch == Pop(c.NumberOfLoci, c.shape[1])
        ch1 == Pop(kw.ch1, 0)
        ch2 == Pop(kw.ch2, nch)
        data == OrientedData(c, nch, ch1, ch2, rd)
        fs == AcqRate(c)
        dx == c.SpatialSamplingInterval
    IN  IF ~Has(fs) \/ ~Has(dx) \/ ~Has(c.GaugeLength) THEN Raise("KeyError")
        ELSE Return(data,
                    [NoMeta EXCEPT !.fs = fs, !.dx = dx,
                                   !.start_channel = Val(ch1),
                                   !.start_distance = Val(ch1 * Get(dx)),
                                   !.gauge_length = c.GaugeLength,
                                   !.start_time = Val(read_h5_starttime(c)),
                                   !.headers = Val("headers")],
                    0, Val(ch1), Val(ch2), 0, nch)

\* timestamps in seconds, as ticks / per_s: two samples a second
RawStamps == [ticks |-> <<20, 21, 22>>, per_s |-> 2]

RawContainers ==
    {[variant |-> "raw-stream", shape |-> <<n, nt>>, dtype |-> d,
      timestamp |-> t] :
        n \in Chans, nt \in Samples, d \in DTypes,
        t \in {Absent, Val(RawStamps)}}

\* lines 173-186
read_h5_raw(c, kw, rd) ==
    LET nch == c.shape[1]
        ch1 == Pop(kw.ch1, 0)
        ch2 == Pop(kw.ch2, nch)
        data == IF rd THEN GetRows(c, ch1, ch2) ELSE ZerosLike(c)
        t == Get(c.timestamp)
        n == Len(t.ticks)
        fs == Round(t.per_s * (n - 1), t.ticks[n] - t.ticks[1])
    IN  IF ~Has(c.timestamp) THEN Raise("KeyError")
        ELSE Return(data,
                    [NoMeta EXCEPT !.fs = Val(fs), !.dx = PyNone,
                         !.start_time =
                             Val(FromTimestamp(t.ticks[1], t.per_s)),
                         !.headers = Val("headers")],
                    1, Val(ch1), Val(ch2), 0, nch)

\* the attributes of a complete data-product container; the sample
\* interval is in seconds, as num / den
DpValue ==
    [dt_computer |-> [num |-> 1, den |-> 4],
     dx |-> 2,
     gauge_length |-> 10,
     file_start_computer_time |-> 9,
     data_product |-> "strain"]

GpsTimes == {0, 7}
SavingTimes == {0, 3}

DpAttrs ==
    {"nx", "dt_computer", "dx", "gauge_length", "saving_start_gps_time",
     "file_start_gps_time", "file_start_computer_time", "data_product"}

DpContainer(shape, d, nx, saving, gps, missing) ==
    [variant |-> "data-product", shape |-> shape, dtype |-> d,
     nx |-> IF "nx" \in missing THEN Absent ELSE Val(nx),
     dt_computer |-> Attr(DpValue, missing, "dt_computer"),
     dx |-> Attr(DpValue, missing, "dx"),
     gauge_length |-> Attr(DpValue, missing, "gauge_length"),
     saving_start_gps_time |->
         IF "saving_start_gps_time" \in missing THEN Absent ELSE Val(saving),
     file_start_gps_time |->
         IF "file_start_gps_time" \in missing THEN Absent ELSE Val(gps),
     file_start_computer_time |->
         Attr(DpValue, missing, "file_start_computer_time"),
     data_product |-> Attr(DpValue, missing, "data_product")]

DpContainers ==
    {DpContainer(o.shape, "int16", o.count, sv, gps, {}) :
        o \in OrientedShapes, sv \in SavingTimes, gps \in GpsTimes}
    \cup
    {DpContainer(<<n, 1>>, "float32", n, 3, 7, {}) : n \in Chans}
    \cup
    {DpContainer(<<MaxCh, 1>>, "int16", MaxCh, sv, 7, {a}) :
        sv \in SavingTimes, a \in DpAttrs}

\* lines 208-213
DpStartTime(c) ==
    IF Get(c.saving_start_gps_time) > 0
    THEN FromTimestamp(Get(c.file_start_gps_time), 1)
    ELSE FromTimestamp(Get(c.file_start_computer_time), 1)

\* the attributes lines 189-214 read, each a KeyError when it is absent
DpKeyError(c) ==
    \/ ~Has(c.nx) \/ ~Has(c.dt_computer) \/ ~Has(c.dx)
    \/ ~Has(c.gauge_length) \/ ~Has(c.saving_start_gps_time)
    \/ ~Has(c.data_product)
    \/ IF Get(c.saving_start_gps_time) > 0
       THEN ~Has(c.file_start_gps_time)
       ELSE ~Has(c.file_start_computer_time)

\* line 205: 1 / dt
Reciprocal(q) == q.den \div q.num

\* lines 187-219
read_h5_data_product(c, kw, rd) ==
    LET nch == Get(c.nx)
        ch1 == Pop(kw.ch1, 0)
        ch2 == Pop(kw.ch2, nch)
        data == OrientedData(c, nch, ch1, ch2, rd)
    IN  IF DpKeyError(c) THEN Raise("KeyError")
        ELSE Return(data,
                    [NoMeta EXCEPT
                         !.fs = Val(Reciprocal(Get(c.dt_computer))),
                         !.dx = c.dx,
                         !.start_channel = Val(ch1),
                         !.start_distance = Val(ch1 * Get(c.dx)),
                         !.start_time = Val(DpStartTime(c)),
                         !.gauge_length = c.gauge_length,
                         !.data_type = c.data_product,
                         !.headers = Val("headers")],
                    0, Val(ch1), Val(ch2), 0, nch)

\* the attributes of a complete multi-source-zone container
MszValue ==
    [Extent |-> 0, Spacing |-> 2, FreqRes |-> 4, SamplingRate |-> 8,
     Origin |-> 100, GaugeLength |-> 10, time |-> 50]

MszProfiles ==
    {{}, {"Extent"}, {"Spacing"}, {"FreqRes"}, {"SamplingRate"}, {"Origin"},
     {"GaugeLength"}, {"time"}, {"FreqRes", "SamplingRate"}}

\* the dataset is shaped (blocks, samples, channels)
MszContainer(shape, d, start, missing) ==
    [variant |-> "multi-source-zone", shape |-> shape, dtype |-> d,
     Extent |-> IF "Extent" \in missing THEN Absent ELSE Val(start),
     Spacing |-> Attr(MszValue, missing, "Spacing"),
     FreqRes |-> Attr(MszValue, missing, "FreqRes"),
     SamplingRate |-> Attr(MszValue, missing, "SamplingRate"),
     Origin |-> Attr(MszValue, missing, "Origin"),
     GaugeLength |-> Attr(MszValue, missing, "GaugeLength"),
     time |-> Attr(MszValue, missing, "time")]

MszContainers ==
    {MszContainer(<<a, nt, n>>, "int16", s, {}) :
        a \in 1..2, nt \in Samples, n \in Chans, s \in Starts}
    \cup
    {MszContainer(<<1, 1, n>>, "float32", s, {}) : n \in Chans, s \in Starts}
    \cup
    {MszContainer(<<1, MaxNt, MaxCh>>, "int16", MaxStart, p) :
        p \in MszProfiles}

\* a.reshape((r, -1)) of an array of `size` elements: the shape, or <<>>
\* when numpy raises ValueError
Reshape(size, r) ==
    IF r <= 0 THEN <<>>
    ELSE IF size % r # 0 THEN <<>>
    ELSE <<r, size \div r>>

\* lines 228-235
MszData(c, start, nch, ch1, ch2, rd) ==
    LET blocks == c.shape[1] * c.shape[2]
        sel == SliceLen(ch1 - start, ch2 - start, nch)
    IN  IF rd
        THEN [shape |-> Reshape(blocks * sel, ch2 - ch1), dtype |-> c.dtype,
              zero |-> FALSE,
              rows |-> SliceIdx(ch1 - start, ch2 - start, nch)]
        ELSE [shape |-> Reshape(blocks * nch, nch), dtype |-> c.dtype,
              zero |-> TRUE, rows |-> <<>>]

\* lines 239-242: Absent when both lookups raise KeyError
MszRate(c) == IF Has(c.FreqRes) THEN c.FreqRes ELSE c.SamplingRate

\* lines 220-252
read_h5_zone(c, kw, rd) ==
    LET start_channel == Get(c.Extent)
        nch == c.shape[3]
        ch1 == Pop(kw.ch1, start_channel)
        ch2 == Pop(kw.ch2, start_channel + nch)
        data == MszData(c, start_channel, nch, ch1, ch2, rd)
        dx == Get(c.Spacing)
    IN  IF c.variant # "multi-source-zone" THEN Raise("KeyError")
        ELSE IF ~Has(c.Extent) THEN Raise("KeyError")
        ELSE IF data.shape = <<>> THEN Raise("ValueError")
        ELSE IF \/ ~Has(c.Spacing) \/ ~Has(MszRate(c)) \/ ~Has(c.Origin)
                \/ ~Has(c.time) \/ ~Has(c.GaugeLength)
        THEN Raise("KeyError")
        ELSE Return(data,
                    [NoMeta EXCEPT
                         !.fs = MszRate(c), !.dx = c.Spacing,
                         !.start_channel = Val(ch1),
                         !.start_distance =
                             Val(Get(c.Origin) + (ch1 - start_channel) * dx),
                         !.start_time = Val(FromTimestamp(Get(c.time), 1)),
                         !.gauge_length = c.GaugeLength,
                         !.headers = Val("headers")],
                    0, Val(ch1), Val(ch2), start_channel, nch)

H5Containers ==
    AcqContainers \cup RawContainers \cup DpContainers \cup MszContainers
    \cup {[variant |-> "empty-file"], [variant |-> "unknown-layout"]}

\* lines 134-256: the first key of the file selects the layout
read_h5(c, kw, rd) ==
    IF c.variant = "empty-file" THEN Raise("IndexError")
    ELSE IF c.variant = "acquisition-v1" THEN read_h5_acquisition(c, kw, rd)
    ELSE IF c.variant = "raw-stream" THEN read_h5_raw(c, kw, rd)
    ELSE IF c.variant = "data-product" THEN read_h5_data_product(c, kw, rd)
    ELSE read_h5_zone(c, kw, rd)

-----------------------------------------------------------------------------
(* _read_tdms *)

\* the headers of a complete engineering-waveform container; the time base
\* is in seconds, as num / den
TdmsValue ==
    [SpatialResolution_m |-> 2, Spatial_Resolution |-> 3,
     SamplingFrequency_Hz |-> 4, Time_Base |-> [num |-> 1, den |-> 2],
     Start_Distance_m |-> 100, GaugeLength |-> 10,
     ISO8601_Timestamp |-> "2024-01-01T00:00:00.000000+00:00",
     GPSTimeStamp |-> [id |-> "gps", truthy |-> TRUE],
     CPUTimeStamp |-> [id |-> "cpu", truthy |-> TRUE],
     Trigger_Time |-> [id |-> "trigger", truthy |-> TRUE]]

TdmsProfiles ==
    {{}, {"SpatialResolution_m"},
     {"SpatialResolution_m", "Spatial_Resolution"},
     {"SamplingFrequency_Hz"}, {"SamplingFrequency_Hz", "Time_Base"},
     {"Start_Distance_m"}, {"GaugeLength"},
     {"SpatialResolution_m", "Spatial_Resolution", "Start_Distance_m"}}

TdmsTimeProfiles ==
    {{"ISO8601_Timestamp"},
     {"ISO8601_Timestamp", "GPSTimeStamp"},
     {"ISO8601_Timestamp", "GPSTimeStamp", "CPUTimeStamp"},
     {"ISO8601_Timestamp", "GPSTimeStamp", "CPUTimeStamp", "Trigger_Time"}}

\* which of the three time stamps hold a value that is false (line 333)
TdmsFalsyProfiles == SUBSET {"GPSTimeStamp", "CPUTimeStamp", "Trigger_Time"}

\* the headers named in f, where present, hold a false value
TdmsFalsy(c, f) ==
    LET falsy(name, h) ==
            IF name \in f /\ Has(h) THEN Val([Get(h) EXCEPT !.truthy = FALSE])
            ELSE h
    IN  [c EXCEPT !.GPSTimeStamp = falsy("GPSTimeStamp", @),
                  !.CPUTimeStamp = falsy("CPUTimeStamp", @),
                  !.Trigger_Time = falsy("Trigger_Time", @)]

\* layout "multi": channels named start .. start + nch - 1, nt samples each;
\* layout "single": one channel of nch * nt interleaved samples;
\* layout "empty": a group without channels
TdmsContainer(layout, start, nch, nt, d, missing) ==
    [variant |-> "engineering-waveform", layout |-> layout,
     first_name |-> start, nch |-> nch, nt |-> nt, dtype |-> d,
     Initial_Channel |->
         IF "Initial_Channel" \in missing THEN Absent ELSE Val(start),
     Total_Channels |->
         IF "Total_Channels" \in missing THEN Absent ELSE Val(nch),
     SpatialResolution_m |-> Attr(TdmsValue, missing, "SpatialResolution_m"),
     Spatial_Resolution |-> Attr(TdmsValue, missing, "Spatial_Resolution"),
     SamplingFrequency_Hz |->
         Attr(TdmsValue, missing, "SamplingFrequency_Hz"),
     Time_Base |-> Attr(TdmsValue, missing, "Time_Base"),
     Start_Distance_m |-> Attr(TdmsValue, missing, "Start_Distance_m"),
     GaugeLength |-> Attr(TdmsValue, missing, "GaugeLength"),
     ISO8601_Timestamp |-> Attr(TdmsValue, missing, "ISO8601_Timestamp"),
     GPSTimeStamp |-> Attr(TdmsValue, missing, "GPSTimeStamp"),
     CPUTimeStamp |-> Attr(TdmsValue, missing, "CPUTimeStamp"),
     Trigger_Time |-> Attr(TdmsValue, missing, "Trigger_Time")]

TdmsContainers ==
    {TdmsContainer("multi", s, n, nt, d, {}) :
        s \in Starts, n \in 2..MaxCh, nt \in Samples, d \in DTypes}
    \cup
    {TdmsContainer("single", s, n, nt, "int16", {}) :
        s \in Starts, n \in Chans, nt \in Samples}
    \cup
    {TdmsContainer("single", 0, n, 1, "float32", m) :
        n \in Chans, m \in {{"Initial_Channel"}, {"Total_Channels"}}}
    \cup
    {TdmsContainer(l, s, MaxCh, 1, "int16", p) :
        l \in {"multi", "single"}, s \in Starts, p \in TdmsProfiles}
    \cup
    {TdmsContainer("multi", 0, MaxCh, 1, "int16", p) :
        p \in TdmsTimeProfiles}
    \cup
    {TdmsFalsy(TdmsContainer("multi", 0, MaxCh, 1, "int16",
                             {"ISO8601_Timestamp"} \cup m), f) :
        m \in {{}, {"GPSTimeStamp"}}, f \in TdmsFalsyProfiles}
    \cup
    {TdmsContainer("empty", 0, 0, 1, "int16", {})}

Max(a, b) == IF a > b THEN a ELSE b
Min(a, b) == IF a < b THEN a ELSE b

\* lines 273-275, 286-289: the intrinsic first channel
TdmsStart(c) ==
    IF c.layout = "multi" THEN c.first_name ELSE Pop(c.Initial_Channel, 0)

\* lines 279-284: one sub-channel per channel
TdmsMultiData(c, ch1, ch2, rd) ==
    IF ~rd THEN NpZeros(<<c.nch, c.nt>>)
    ELSE IF ch1 < ch2
    THEN [shape |-> <<ch2 - ch1, c.nt>>, dtype |-> c.dtype, zero |-> FALSE,
          rows |-> [k \in 1..(ch2 - ch1) |-> ch1 - c.first_name + k - 1]]
    ELSE [shape |-> <<0>>, dtype |-> "float64", zero |-> FALSE,
          rows |-> <<>>]

\* lines 295-301: one interleaved channel
TdmsSingleData(c, start, nch, ch1, ch2, rd) ==
    LET full == [shape |-> Reshape(c.nch * c.nt, nch), dtype |-> c.dtype]
    IN  IF full.shape = <<>> THEN NoData
        ELSE IF rd THEN GetRows(full, ch1 - start, ch2 - start)
        ELSE NpZeros(full.shape)

\* lines 304-310
TdmsDx(c) ==
    IF Has(c.SpatialResolution_m) THEN c.SpatialResolution_m
    ELSE IF Has(c.Spatial_Resolution) THEN c.Spatial_Resolution
    ELSE PyNone

\* lines 312-318
TdmsFs(c) ==
    IF Has(c.SamplingFrequency_Hz) THEN c.SamplingFrequency_Hz
    ELSE IF Has(c.Time_Base) THEN Val(Reciprocal(Get(c.Time_Base)))
    ELSE PyNone

\* lines 320-324, for a spacing that is a number
TdmsStartDistance(c, dx, ch1, start_channel) ==
    IF Has(c.Start_Distance_m)
    THEN Get(c.Start_Distance_m) + dx * (ch1 - start_channel)
    ELSE dx * ch1

\* lines 331-336 with the list of line 331 walked from its end
TdmsFallbackTimeLast(c, keys) ==
    LET usable == {i \in 1..Len(keys) : Has(keys[i]) /\ Get(keys[i]).truthy}
    IN  IF usable = {} THEN TimeZero
        ELSE FromDatetime(
                 Get(keys[CHOOSE i \in usable : \A j \in usable : j <= i]).id)

\* lines 330-336: the first of the three headers that is present and true
TdmsFallbackTime(c, keys) ==
    LET usable == {i \in 1..Len(keys) : Has(keys[i]) /\ Get(keys[i]).truthy}
    IN  IF usable = {} THEN TimeZero
        ELSE FromDatetime(
                 Get(keys[CHOOSE i \in usable : \A j \in usable : i <= j]).id)

\* lines 326-336
TdmsStartTime(c) ==
    IF Has(c.ISO8601_Timestamp) THEN StrptimeOffset(Get(c.ISO8601_Timestamp))
    ELSE TdmsFallbackTime(c, <<c.GPSTimeStamp, c.CPUTimeStamp,
                               c.Trigger_Time>>)

\* lines 259-345
read_tdms(c, kw, rd) ==
    LET start_channel == TdmsStart(c)
        nch == IF c.layout = "multi" THEN c.nch ELSE Get(c.Total_Channels)
        ch1 == Max(Pop(kw.ch1, start_channel), start_channel)
        ch2 == Min(Pop(kw.ch2, start_channel + nch), start_channel + nch)
        data == IF c.layout = "multi" THEN TdmsMultiData(c, ch1, ch2, rd)
                ELSE TdmsSingleData(c, start_channel, nch, ch1, ch2, rd)
        dx == TdmsDx(c)
        fs == TdmsFs(c)
    IN  IF c.layout = "empty" THEN Raise("UnboundLocalError")
        ELSE IF c.layout = "single" /\ ~Has(c.Total_Channels)
        THEN Raise("KeyError")
        ELSE IF data = NoData THEN Raise("ValueError")
        ELSE IF dx = PyNone THEN Raise("TypeError")
        ELSE Return(data,
                    [NoMeta EXCEPT
                         !.fs = fs, !.dx = dx,
                         !.start_channel = Val(ch1),
                         !.start_distance =
                             Val(TdmsStartDistance(c, Get(dx), ch1,
                                                   start_channel)),
                         !.start_time = Val(TdmsStartTime(c)),
                         !.gauge_length = c.GaugeLength,
                         !.headers = Val("headers")],
                    0, Val(ch1), Val(ch2), start_channel, nch)

-----------------------------------------------------------------------------
(* _read_segy and _read_npy *)

\* the sample interval of the traces, in microseconds
SegyDt == {250000}

SegyContainers ==
    {[variant |-> "seismic-trace", shape |-> <<n, nt>>, dtype |-> d,
      dt |-> dt] :
        n \in Chans, nt \in Samples, d \in DTypes, dt \in SegyDt}

\* lines 348-368
read_segy(c, kw, rd) ==
    LET nch == c.shape[1]
        ch1 == Pop(kw.ch1, 0)
        ch2 == Pop(kw.ch2, nch)
        data == IF rd THEN GetRows(c, ch1, ch2) ELSE ZerosLike(c)
    IN  Return(data,
               [NoMeta EXCEPT !.fs = Val(Mega \div c.dt), !.dx = PyNone,
                              !.start_channel = Val(ch1)],
               1, Val(ch1), Val(ch2), 0, nch)

NpyContainers ==
    {[variant |-> "npy", shape |-> <<n, nt>>, dtype |-> d] :
        n \in Chans, nt \in Samples, d \in DTypes}

\* lines 371-380
read_npy(c, kw, rd) ==
    LET meta == [NoMeta EXCEPT !.dx = PyNone, !.fs = PyNone]
        ch1 == Pop(kw.ch1, 0)
        ch2 == Pop(kw.ch2, c.shape[1])
    IN  IF rd
        THEN Return(GetRows(c, ch1, ch2), meta, 1, Val(ch1), Val(ch2),
                    0, c.shape[1])
        ELSE Return(ZerosLike(c), meta, 0, Absent, Absent, 0, c.shape[1])

-----------------------------------------------------------------------------
(* read *)

\* strings are sequences of characters
NoName == <<"None">>
NoType == <<"None">>

LowerOf ==
    [D |-> "d", E |-> "e", F |-> "f", G |-> "g", H |-> "h", K |-> "k",
     L |-> "l", P |-> "p", S |-> "s", Y |-> "y"]

\* str.lower()
Lower(s) ==
    [i \in 1..Len(s) |->
        IF s[i] \in DOMAIN LowerOf THEN LowerOf[s[i]] ELSE s[i]]

\* s.split('.')[-1]
LastPart(s) ==
    LET dots == {i \in 1..Len(s) : s[i] = "."}
    IN  IF dots = {} THEN s
        ELSE SubSeq(s, (CHOOSE i \in dots : \A j \in dots : j <= i) + 1,
                    Len(s))

RECURSIVE Replace(_, _, _)
\* s.replace(old, new)
Replace(s, old, new) ==
    IF Len(s) < Len(old) THEN s
    ELSE IF SubSeq(s, 1, Len(old)) = old
    THEN new \o Replace(SubSeq(s, Len(old) + 1, Len(s)), old, new)
    ELSE <<Head(s)>> \o Replace(Tail(s), old, new)

\* line 45 left out: 'hdf5' is not rewritten to 'h5'
NormalizeNoHdf5(t) ==
    Replace(t, <<"s", "e", "g", "y">>, <<"s", "g", "y">>)

\* lines 45-46
Normalize(t) ==
    Replace(Replace(t, <<"h", "d", "f", "5">>, <<"h", "5">>),
            <<"s", "e", "g", "y">>, <<"s", "g", "y">>)

\* lines 38-39
fun_map ==
    (<<"p", "k", "l">> :> "_read_pkl")
    @@ (<<"p", "i", "c", "k", "l", "e">> :> "_read_pkl")
    @@ (<<"t", "d", "m", "s">> :> "_read_tdms")
    @@ (<<"h", "5">> :> "_read_h5")
    @@ (<<"s", "g", "y">> :> "_read_segy")
    @@ (<<"n", "p", "y">> :> "_read_npy")

\* line 41: the bundled example file
ExamplePkl == <<"e", "x", "a", "m", "p", "l", "e", ".", "p", "k", "l">>

\* lines 40-46: the path and the tag the call goes on with
ResolvedName(name) == IF name = NoName THEN ExamplePkl ELSE name

ResolvedTag(name, type) ==
    LET t == IF name = NoName THEN <<"p", "k", "l">> ELSE type
    IN  Normalize(IF t = NoType THEN LastPart(Lower(ResolvedName(name)))
                  ELSE t)

NoOut ==
    [kind |-> "none", exc |-> "", data |-> NoData, meta |-> NoMeta,
     source |-> <<>>, source_type |-> <<>>]

\* lines 19-48: up to the call of the reader
Read ==
    /\ pc = "start"
    /\ tag' = ResolvedTag(fname, ftype)
    /\ IF tag' \in DOMAIN fun_map
       THEN /\ reader' = fun_map[tag']
            /\ pc' = "called"
            /\ out' = out
       ELSE /\ reader' = reader
            /\ pc' = "raised"
            /\ out' = [NoOut EXCEPT !.kind = "raise", !.exc = "KeyError"]
    /\ UNCHANGED <<fname, ftype, output_type, read_data, kwargs, handle,
                   container, res>>

\* entering a `with` block: lines 59-60, 135, 261, 351
Open(r, containers) ==
    /\ pc = "called"
    /\ reader = r
    /\ handle' = "open"
    /\ container' \in containers
    /\ pc' = "opened"
    /\ UNCHANGED <<fname, ftype, output_type, read_data, kwargs, tag, reader,
                   res, out>>

OpenPkl == Open("_read_pkl", PklContainers)
OpenH5 == Open("_read_h5", H5Containers)
OpenTdms == Open("_read_tdms", TdmsContainers)
OpenSegy == Open("_read_segy", SegyContainers)

\* the body of a `with` block
Extract(r, result) ==
    /\ pc = "opened"
    /\ reader = r
    /\ handle = "open"
    /\ res' = result
    /\ pc' = "extracted"
    /\ UNCHANGED <<fname, ftype, output_type, read_data, kwargs, tag, reader,
                   handle, container, out>>

ExtractPkl == Extract("_read_pkl", read_pkl(container, kwargs, read_data))
ExtractH5 == Extract("_read_h5", read_h5(container, kwargs, read_data))
ExtractTdms == Extract("_read_tdms", read_tdms(container, kwargs, read_data))
ExtractSegy == Extract("_read_segy", read_segy(container, kwargs, read_data))

\* a `with` block that releases the handle only on a normal return
WithExitOnReturnOnly ==
    /\ pc = "extracted"
    /\ handle' = IF res.status = "return" THEN "closed" ELSE handle
    /\ pc' = "closed"
    /\ UNCHANGED <<fname, ftype, output_type, read_data, kwargs, tag, reader,
                   container, res, out>>

\* leaving a `with` block, by return or by exception: the handle is released
WithExit ==
    /\ pc = "extracted"
    /\ handle' = "closed"
    /\ pc' = "closed"
    /\ UNCHANGED <<fname, ftype, output_type, read_data, kwargs, tag, reader,
                   container, res, out>>

\* lines 371-380: np.load takes the path, no handle is held
LoadNpy ==
    /\ pc = "called"
    /\ reader = "_read_npy"
    /\ container' \in NpyContainers
    /\ res' = read_npy(container', kwargs, read_data)
    /\ pc' = "closed"
    /\ UNCHANGED <<fname, ftype, output_type, read_data, kwargs, tag, reader,
                   handle, out>>

\* lines 50-55, or the reader's exception passing through line 48
ReadReturn ==
    /\ pc = "closed"
    /\ IF res.status = "raise"
       THEN /\ pc' = "raised"
            /\ out' = [NoOut EXCEPT !.kind = "raise", !.exc = res.exc]
       ELSE /\ pc' = "returned"
            /\ out' = IF output_type = "section"
                      THEN [kind |-> "section", exc |-> "",
                            data |-> AsFloat(res.data), meta |-> res.meta,
                            source |-> ResolvedName(fname),
                            source_type |-> tag]
                      ELSE [kind |-> "array", exc |-> "",
                            data |-> res.data, meta |-> res.meta,
                            source |-> <<>>, source_type |-> <<>>]
    /\ UNCHANGED <<fname, ftype, output_type, read_data, kwargs, tag, reader,
                   handle, container, res>>

-----------------------------------------------------------------------------
(* The calls *)

Option(S) == {Absent} \cup {Val(v) : v \in S}

Windows == [ch1 : Option(Requests), ch2 : Option(Requests)]

AnyName == <<"d", ".", "d", "a", "t">>

\* the canonical tags, given explicitly
CanonTypes ==
    {<<"p", "k", "l">>, <<"t", "d", "m", "s">>, <<"h", "5">>,
     <<"s", "g", "y">>, <<"n", "p", "y">>}

\* explicit tags: aliases, a wrong case, unknown tags
OtherTypes ==
    {<<"p", "i", "c", "k", "l", "e">>, <<"h", "d", "f", "5">>,
     <<"s", "e", "g", "y">>, <<"H", "5">>, <<"c", "s", "v">>, <<>>,
     <<"h", "d", "f", "5", "x">>, <<"h", "d", "f">>}

\* file names whose suffix decides
Names ==
    {<<"d", ".", "p", "k", "l">>, <<"d", ".", "P", "K", "L">>,
     <<"d", ".", "p", "i", "c", "k", "l", "e">>,
     <<"d", ".", "t", "d", "m", "s">>,
     <<"d", ".", "h", "5">>, <<"d", ".", "h", "d", "f", "5">>,
     <<"d", ".", "H", "D", "F", "5">>,
     <<"d", ".", "s", "g", "y">>, <<"d", ".", "S", "e", "g", "y">>,
     <<"d", ".", "n", "p", "y">>,
     <<"d", ".", "h", "5", ".", "t", "x", "t">>,
     <<"d", ".", "t", "x", "t", ".", "h", "5">>,
     <<"s", "g", "y">>, <<"d", "h", "5">>, AnyName}

Start(name, type, otype, rd, kw) ==
    /\ pc = "start"
    /\ fname = name
    /\ ftype = type
    /\ output_type = otype
    /\ read_data = rd
    /\ kwargs = kw
    /\ tag = <<>>
    /\ reader = "none"
    /\ handle = "none"
    /\ container = [variant |-> "none"]
    /\ res = NoRes
    /\ out = NoOut

\* every window, on each reader
InitWindows ==
    \E type \in CanonTypes, otype \in {"section", "array"},
       rd \in BOOLEAN, kw \in Windows :
        Start(AnyName, type, otype, rd, kw)

\* every way of naming the format, reading the whole container
InitDispatch ==
    \E name \in Names \cup {NoName},
       type \in CanonTypes \cup OtherTypes \cup {NoType} :
        /\ (name \in Names \ {AnyName} => type \in {NoType, <<"h", "5">>})
        /\ Start(name, type, "array", TRUE,
                 [ch1 |-> Absent, ch2 |-> Absent])

Init == InitWindows \/ InitDispatch

Next ==
    \/ Read
    \/ OpenPkl \/ OpenH5 \/ OpenTdms \/ OpenSegy
    \/ ExtractPkl \/ ExtractH5 \/ ExtractTdms \/ ExtractSegy
    \/ WithExit
    \/ LoadNpy
    \/ ReadReturn

Spec == Init /\ [][Next]_vars

-----------------------------------------------------------------------------
(* Properties *)

Returned == pc = "returned"
Finished == pc \in {"returned", "raised"}
Variant == container.variant

\* the variants of the specification's table
SchemaVariants ==
    {"serialized-array", "serialized-map", "acquisition-v1", "raw-stream",
     "data-product", "multi-source-zone", "engineering-waveform",
     "seismic-trace"}

\* the reader `r` applied to container c
Run(r, c, kw, rd) ==
    IF r = "_read_pkl" THEN read_pkl(c, kw, rd)
    ELSE IF r = "_read_h5" THEN read_h5(c, kw, rd)
    ELSE IF r = "_read_tdms" THEN read_tdms(c, kw, rd)
    ELSE IF r = "_read_segy" THEN read_segy(c, kw, rd)
    ELSE read_npy(c, kw, rd)

\* the number of stored samples of each channel
SampleCount(c, count) ==
    IF c.variant = "engineering-waveform" THEN c.nt
    ELSE IF c.variant = "multi-source-zone" THEN c.shape[1] * c.shape[2]
    ELSE (c.shape[1] * c.shape[2]) \div count

\* a window inside the intrinsic range [start, start + count)
InRange(start, count, ch1, ch2) ==
    start <= ch1 /\ ch1 < ch2 /\ ch2 <= start + count

\* C1: a call that returns has resolved a window with
\* start_channel <= ch1 < ch2 <= start_channel + count: a window outside
\* that range is clamped or the call fails, it never returns with it.
C1_ResolvedWindowInRange ==
    (Returned /\ Variant \in SchemaVariants /\ Has(res.ch1)) =>
        InRange(res.start, res.nch, Get(res.ch1), Get(res.ch2))

\* the window a returned result stands for: the resolved one, or the whole
\* intrinsic range when the reader resolved none
WindowOf(r) ==
    <<Pop(r.ch1, r.start), Pop(r.ch2, r.start + r.nch)>>

\* C2 as claimed: with read_data=false the matrix is all zero and has the
\* shape and the element type of the read_data=true result for the same
\* container and the same window.
C2_StubMatchesWindowRead ==
    (Returned /\ Variant \in SchemaVariants /\ ~read_data) =>
        LET real == Run(reader, container, kwargs, TRUE)
        IN  real.status = "return" =>
                /\ res.data.zero
                /\ res.data.shape = real.data.shape
                /\ res.data.dtype = real.data.dtype

\* C2 as amended: with read_data=false the matrix is all zero and has the
\* shape of the whole container, (count, sample_count), whatever the window;
\* for a window inside the intrinsic range that is the shape of the
\* read_data=true result exactly when the window is the whole range.  Its
\* element type is the stored one, except that an engineering-waveform stub
\* is float64 (and that a section holds floats in either case).
C2_StubIsWholeContainer ==
    (Returned /\ Variant \in SchemaVariants /\ ~read_data) =>
        LET real == Run(reader, container, kwargs, TRUE)
            w == WindowOf(real)
        IN  /\ res.data.zero
            /\ res.data.shape = <<res.nch, SampleCount(container, res.nch)>>
            /\ res.data.dtype = IF Variant = "engineering-waveform"
                                THEN "float64" ELSE container.dtype
            /\ out.data.dtype = IF output_type = "section" THEN "float64"
                                ELSE res.data.dtype
            /\ out.data.shape = res.data.shape
            /\ out.data.zero
            /\ (real.status = "return"
                /\ InRange(real.start, real.nch, w[1], w[2])) =>
                   (real.data.shape = res.data.shape
                    <=> (w[1] = real.start /\ w[2] = real.start + real.nch))

\* C2 witness: a stub was returned for a window of one channel out of three
C2_Witness ==
    /\ Returned /\ ~read_data
    /\ Variant = "acquisition-v1"
    /\ kwargs = [ch1 |-> Val(1), ch2 |-> Val(2)]
    /\ res.nch = 3
    /\ res.data.shape[1] = 3

\* C3: for acquisition-v1 and data-product, a read with read_data=true and
\* resolved window (ch1, ch2) returns a matrix of shape
\* (ch2 - ch1, sample_count), for a channel-major and for a sample-major
\* array on disk.
C3_ShapeIsWindowBySamples ==
    (Returned /\ Variant \in {"acquisition-v1", "data-product"}
     /\ read_data) =>
        res.data.shape = <<Get(res.ch2) - Get(res.ch1),
                           SampleCount(container, res.nch)>>

\* The same for a window inside the intrinsic range, where it holds.
ShapeIsWindowBySamplesInRange ==
    (Returned /\ Variant \in {"acquisition-v1", "data-product"}
     /\ read_data
     /\ InRange(res.start, res.nch, Get(res.ch1), Get(res.ch2))) =>
        /\ res.data.shape = <<Get(res.ch2) - Get(res.ch1),
                              SampleCount(container, res.nch)>>
        /\ res.data.rows = [k \in 1..(Get(res.ch2) - Get(res.ch1)) |->
                               Get(res.ch1) + k - 1]

\* the reader each recognized tag or alias stands for
ReaderOf(t) ==
    IF t \in {<<"p", "k", "l">>, <<"p", "i", "c", "k", "l", "e">>}
    THEN "_read_pkl"
    ELSE IF t \in {<<"h", "5">>, <<"h", "d", "f", "5">>} THEN "_read_h5"
    ELSE IF t \in {<<"s", "g", "y">>, <<"s", "e", "g", "y">>}
    THEN "_read_segy"
    ELSE IF t = <<"t", "d", "m", "s">> THEN "_read_tdms"
    ELSE IF t = <<"n", "p", "y">> THEN "_read_npy"
    ELSE "none"

\* the lower-cased suffix of each file name of the model: what follows the
\* last dot, and the whole name when it has no dot
SuffixOf(name) ==
    IF name \in {<<"d", ".", "p", "k", "l">>, <<"d", ".", "P", "K", "L">>}
    THEN <<"p", "k", "l">>
    ELSE IF name = <<"d", ".", "p", "i", "c", "k", "l", "e">>
    THEN <<"p", "i", "c", "k", "l", "e">>
    ELSE IF name = <<"d", ".", "t", "d", "m", "s">> THEN <<"t", "d", "m", "s">>
    ELSE IF name \in {<<"d", ".", "h", "5">>,
                      <<"d", ".", "t", "x", "t", ".", "h", "5">>}
    THEN <<"h", "5">>
    ELSE IF name \in {<<"d", ".", "h", "d", "f", "5">>,
                      <<"d", ".", "H", "D", "F", "5">>}
    THEN <<"h", "d", "f", "5">>
    ELSE IF name = <<"d", ".", "s", "g", "y">> THEN <<"s", "g", "y">>
    ELSE IF name = <<"d", ".", "S", "e", "g", "y">> THEN <<"s", "e", "g", "y">>
    ELSE IF name = <<"d", ".", "n", "p", "y">> THEN <<"n", "p", "y">>
    ELSE IF name = <<"d", ".", "h", "5", ".", "t", "x", "t">>
    THEN <<"t", "x", "t">>
    ELSE IF name = AnyName THEN <<"d", "a", "t">>
    ELSE name

\* C4: for a call with a path, the tag is the explicit ftype when one is
\* given and the lower-cased suffix of the file name otherwise; 'hdf5' goes
\* to the reader of 'h5' and 'segy' to the reader of 'sgy'; any other tag
\* that is none of the recognized ones fails with the lookup error, and no
\* reader is invoked, no container opened.
C4_Dispatch ==
    (pc # "start" /\ fname # NoName) =>
        LET t == IF ftype # NoType THEN ftype ELSE SuffixOf(fname)
        IN  /\ reader = ReaderOf(t)
            /\ ReaderOf(t) = "none" =>
                   /\ pc = "raised"
                   /\ out.kind = "raise" /\ out.exc = "KeyError"
                   /\ handle = "none"
                   /\ Variant = "none"
                   /\ res = NoRes
            /\ ReaderOf(t) # "none" => pc # "raised" \/ res.status = "raise"

\* C4 witness: a file named d.HDF5, no explicit tag, reached the HDF5 reader
C4_Witness ==
    /\ fname = <<"d", ".", "H", "D", "F", "5">>
    /\ ftype = NoType
    /\ reader = "_read_h5"
    /\ pc = "returned"

\* every step of the spacing chain of the container is exhausted
SpacingExhausted(c) ==
    \/ c.variant \in {"raw-stream", "seismic-trace", "serialized-array"}
    \/ c.variant = "acquisition-v1" /\ ~Has(c.SpatialSamplingInterval)
    \/ c.variant = "engineering-waveform" /\ c.layout # "empty"
       /\ ~Has(c.SpatialResolution_m) /\ ~Has(c.Spatial_Resolution)

\* every step of the sampling-rate chain of the container is exhausted
RateExhausted(c) ==
    \/ c.variant = "serialized-array"
    \/ c.variant = "acquisition-v1"
       /\ ~Has(c.OutputDataRate) /\ ~Has(c.RawDataTime)
    \/ c.variant = "engineering-waveform" /\ c.layout # "empty"
       /\ ~Has(c.SamplingFrequency_Hz) /\ ~Has(c.Time_Base)

\* every step of the start-time chain of the container is exhausted
TimeExhausted(c) ==
    \/ c.variant = "acquisition-v1"
       /\ ~Has(c.PartStartTime) /\ ~Has(c.MeasurementStartTime)
       /\ ~Has(c.RawDataTime)
    \/ c.variant = "engineering-waveform" /\ c.layout # "empty"
       /\ ~Has(c.ISO8601_Timestamp) /\ ~Has(c.GPSTimeStamp)
       /\ ~Has(c.CPUTimeStamp) /\ ~Has(c.Trigger_Time)

\* C5: when the fallback chain for spacing, sampling rate or start time is
\* exhausted the call still returns, the field holds the unknown sentinel
\* and a diagnostic is emitted; a raw-stream container gives an unknown
\* channel spacing and exactly one diagnostic.
C5_ExhaustedChainStillReturns ==
    (Finished /\ Variant \in SchemaVariants) =>
        /\ SpacingExhausted(container) =>
               Returned /\ res.meta.dx = PyNone /\ res.warns >= 1
        /\ RateExhausted(container) =>
               Returned /\ res.meta.fs = PyNone /\ res.warns >= 1
        /\ TimeExhausted(container) =>
               /\ Returned /\ res.meta.start_time = Val(TimeZero)
               /\ res.warns >= 1
        /\ (Variant = "raw-stream" /\ Has(container.timestamp)) =>
               Returned /\ res.meta.dx = PyNone /\ res.warns = 1

\* The raw-stream scenario of C5 on its own, which holds.
RawStreamSpacingUnknown ==
    (Finished /\ Variant = "raw-stream" /\ Has(container.timestamp)) =>
        Returned /\ res.meta.dx = PyNone /\ res.warns = 1

\* the rows [lo, hi) of an array, in order
RowsFrom(lo, hi) == [k \in 1..(hi - lo) |-> lo + k - 1]

\* C6 as claimed, for bounds inside the intrinsic range: for a
\* serialized-map container each unset bound takes its own default, the
\* matrix is rows [ch1 - s, ch2 - s) of data and start_channel is the
\* resolved ch1, whichever bounds are given and whatever read_data is.
C6_MapWindowAlways ==
    (Returned /\ Variant = "serialized-map") =>
        LET s == Pop(container.start_channel, 0)
            n == container.shape[1]
            ch1 == Pop(kwargs.ch1, s)
            ch2 == Pop(kwargs.ch2, s + n)
        IN  InRange(s, n, ch1, ch2) =>
                /\ res.data.shape = <<ch2 - ch1, container.shape[2]>>
                /\ read_data => res.data.rows = RowsFrom(ch1 - s, ch2 - s)
                /\ res.meta.start_channel = Val(ch1)

\* C6 as amended, for bounds inside the intrinsic range: with read_data=true
\* and at least one bound given, each unset bound takes its own default, the
\* matrix is rows [ch1 - s, ch2 - s) of data and start_channel is the
\* resolved ch1.  With no bound given the whole of data is returned, and
\* with read_data=false a zero matrix of the shape of data whatever the
\* window; in both cases the start-channel entry is returned as stored
\* (absent when the map has none).
C6_MapWindowWhenRequested ==
    (Returned /\ Variant = "serialized-map") =>
        LET s == Pop(container.start_channel, 0)
            n == container.shape[1]
            ch1 == Pop(kwargs.ch1, s)
            ch2 == Pop(kwargs.ch2, s + n)
        IN  InRange(s, n, ch1, ch2) =>
                IF read_data /\ (Has(kwargs.ch1) \/ Has(kwargs.ch2))
                THEN /\ res.data.shape = <<ch2 - ch1, container.shape[2]>>
                     /\ res.data.rows = RowsFrom(ch1 - s, ch2 - s)
                     /\ ~res.data.zero
                     /\ res.meta.start_channel = Val(ch1)
                ELSE /\ res.data.shape = container.shape
                     /\ res.data.zero = ~read_data
                     /\ read_data => res.data.rows = RowsFrom(0, n)
                     /\ res.meta.start_channel = container.start_channel

\* C6 witness: only ch1 is given, on a map that starts at channel 1, and the
\* rows up to the intrinsic end were returned
C6_Witness ==
    /\ Returned /\ Variant = "serialized-map" /\ read_data
    /\ container.start_channel = Val(1)
    /\ container.shape[1] = 3
    /\ kwargs = [ch1 |-> Val(2), ch2 |-> Absent]
    /\ res.data.rows = <<1, 2>>
    /\ res.meta.start_channel = Val(2)

\* C7: the handle is open while the reader extracts and released when the
\* `with` block is left, by return or by exception: after the call has
\* returned or raised no handle is open, and every reader that opened one
\* has released it.
C7_HandleReleased ==
    /\ pc \in {"opened", "extracted"} => handle = "open"
    /\ handle = "open" => pc \in {"opened", "extracted"}
    /\ (pc \in {"closed", "returned", "raised"}
        /\ reader \in {"_read_pkl", "_read_h5", "_read_tdms", "_read_segy"})
           => handle = "closed"
    /\ res.status # "none" => handle # "none" \/ reader = "_read_npy"

\* C7 witness: the extraction failed on a missing attribute and the call
\* raised
C7_Witness ==
    /\ pc = "raised"
    /\ reader = "_read_h5"
    /\ res.exc = "KeyError"
    /\ handle = "closed"

\* C8: when the explicit sampling-rate attribute is present the returned
\* rate is that attribute, also when the time array (acquisition-v1) or the
\* time base (engineering-waveform) gives another value; the derived value
\* is returned only when the attribute is absent.
C8_ExplicitRateWins ==
    /\ (Returned /\ Variant = "acquisition-v1") =>
           IF Has(container.OutputDataRate)
           THEN res.meta.fs = container.OutputDataRate
           ELSE res.meta.fs = Val(DerivedRate(Get(container.RawDataTime)))
    /\ (Returned /\ Variant = "engineering-waveform") =>
           IF Has(container.SamplingFrequency_Hz)
           THEN res.meta.fs = container.SamplingFrequency_Hz
           ELSE IF Has(container.Time_Base)
           THEN res.meta.fs = Val(Reciprocal(Get(container.Time_Base)))
           ELSE res.meta.fs = PyNone

\* C8 witness: the attribute says 4, the time array says 2
C8_Witness ==
    /\ Returned /\ Variant = "acquisition-v1"
    /\ Has(container.OutputDataRate) /\ Has(container.RawDataTime)
    /\ DerivedRate(Get(container.RawDataTime))
           # Get(container.OutputDataRate)
    /\ res.meta.fs = Val(4)

\* the spacing of a container, Absent when its chain is exhausted
SpacingOf(c) ==
    IF c.variant = "acquisition-v1" THEN c.SpatialSamplingInterval
    ELSE IF c.variant = "data-product" THEN c.dx
    ELSE IF c.variant = "multi-source-zone" THEN c.Spacing
    ELSE IF Has(c.SpatialResolution_m) THEN c.SpatialResolution_m
    ELSE c.Spatial_Resolution

\* the start distance the container states, 0 when it states none
OriginOf(c) ==
    IF c.variant = "multi-source-zone" THEN Pop(c.Origin, 0)
    ELSE IF c.variant = "engineering-waveform" THEN Pop(c.Start_Distance_m, 0)
    ELSE 0

\* C9: start_distance is
\* original_start_distance + (resolved ch1 - intrinsic start) * spacing when
\* the spacing is known; when it is unknown the call still returns and
\* start_distance is unknown.
C9_StartDistance ==
    (Finished /\ reader \in {"_read_h5", "_read_tdms"}
     /\ Variant \in SchemaVariants /\ Variant # "raw-stream") =>
        /\ (Returned /\ Has(SpacingOf(container))) =>
               res.meta.start_distance =
                   Val(OriginOf(container)
                       + (Get(res.ch1) - res.start)
                         * Get(SpacingOf(container)))
        /\ (res.exc # "ValueError" /\ Variant = "engineering-waveform"
            /\ container.layout # "empty"
            /\ (container.layout = "single" => Has(container.Total_Channels))
            /\ ~Has(SpacingOf(container))) =>
               Returned /\ res.meta.start_distance \in {PyNone, Absent}

\* what the claim states for a data-product container: the GPS-based start
\* attribute when it is positive, the computer-clock one otherwise
ClaimedDpStartTime(c) ==
    IF Get(c.file_start_gps_time) > 0
    THEN FromTimestamp(Get(c.file_start_gps_time), 1)
    ELSE FromTimestamp(Get(c.file_start_computer_time), 1)

\* C10: for a data-product container start_time is the GPS-based start
\* attribute exactly when that attribute is positive, and the computer-clock
\* start attribute otherwise.
C10_GpsStartWhenPositive ==
    (Returned /\ Variant = "data-product"
     /\ Has(container.file_start_gps_time)
     /\ Has(container.file_start_computer_time)) =>
        res.meta.start_time = Val(ClaimedDpStartTime(container))

\* a time-stamp header that is present, whatever it holds
Present(h) == Has(h)

\* a time-stamp header that is present and holds a true value
Usable(h) == Has(h) /\ Get(h).truthy

\* the start time a priority chain gives, `ok` deciding which of the three
\* time stamps may be used
PriorityTime(c, ok(_)) ==
    IF Has(c.ISO8601_Timestamp)
    THEN StrptimeOffset(Get(c.ISO8601_Timestamp))
    ELSE IF ok(c.GPSTimeStamp) THEN FromDatetime("gps")
    ELSE IF ok(c.CPUTimeStamp) THEN FromDatetime("cpu")
    ELSE IF ok(c.Trigger_Time) THEN FromDatetime("trigger")
    ELSE TimeZero

\* C11 as claimed: for an engineering-waveform container the start time is
\* the ISO8601 header when it is present, otherwise the first header present
\* among GPS, CPU and trigger time, in that order, and the sentinel zero only
\* when none of the four headers is present.
C11_StartTimeFirstPresent ==
    (Returned /\ Variant = "engineering-waveform") =>
        /\ res.meta.start_time = Val(PriorityTime(container, Present))
        /\ res.meta.start_time = Val(TimeZero) =>
               /\ ~Has(container.ISO8601_Timestamp)
               /\ ~Has(container.GPSTimeStamp)
               /\ ~Has(container.CPUTimeStamp)
               /\ ~Has(container.Trigger_Time)

\* C11 as amended: the start time is the ISO8601 header when it is present,
\* otherwise the first header among GPS, CPU and trigger time, in that order,
\* that is present and holds a true value; a header that is present with a
\* false value is passed over, and the start time is the sentinel zero
\* exactly when the ISO8601 header is absent and none of the three is
\* present with a true value.
C11_StartTimeFirstUsable ==
    (Returned /\ Variant = "engineering-waveform") =>
        /\ res.meta.start_time = Val(PriorityTime(container, Usable))
        /\ out.meta.start_time = res.meta.start_time
        /\ res.meta.start_time = Val(TimeZero) <=>
               /\ ~Has(container.ISO8601_Timestamp)
               /\ ~Usable(container.GPSTimeStamp)
               /\ ~Usable(container.CPUTimeStamp)
               /\ ~Usable(container.Trigger_Time)

\* C11 witness: no ISO8601 header, the GPS and the CPU time stamp both
\* present and true, and the GPS one was returned
C11_Witness ==
    /\ Returned /\ Variant = "engineering-waveform"
    /\ ~Has(container.ISO8601_Timestamp)
    /\ Usable(container.GPSTimeStamp) /\ Usable(container.CPUTimeStamp)
    /\ res.meta.start_time = Val(FromDatetime("gps"))

====
